---- MODULE Spec2Model ----
(***************************************************************************)
(* Model of penumbra's Groth16 proof layer (crates/core/crypto/src/proofs/ *)
(* groth16.rs): the prove/verify entry points of the spend, output and     *)
(* delegator-vote circuits as the module's tests drive them, the state     *)
(* commitment tree they consume, and the proof's wire encoding.            *)
(*                                                                         *)
(* Cryptography is modelled symbolically.  A hash is the flat sequence of  *)
(* naturals that spells its inputs behind a tag (so it is injective: the   *)
(* idealisation of collision resistance).  A group element is the vector   *)
(* of its coefficients over the generators it is built from, coefficients  *)
(* in the scalar field Fr.  The SNARK backend is the ideal functionality:  *)
(* a proof verifies exactly when it was made from a satisfying assignment  *)
(* and is checked against the public inputs it was made for.               *)
(***************************************************************************)
EXTENDS Integers, Sequences, FiniteSets, TLC

(***************************************************************************)
(* Bounds of the model.                                                    *)
(***************************************************************************)
\* Note amounts range over 0..MaxAmount (0 is a dummy spend).
MaxAmount == 2
\* Raw draws of fr_strategy range over 0..MaxRaw before reduction mod Fr.
MaxRaw == 3
\* Draws of the operating system's random generator range over 0..MaxRng.
MaxRng == 1
\* Tree operations performed before the note under test is inserted.
MaxTreeOps == 2
\* Quadtree levels per tier (the tree has three tiers: epoch, block, item).
TierHeight == 1
\* verify calls made on one proof.
MaxVerifies == 2
\* Largest unbonding amount of an undelegate claim.
MaxUnbonding == 3
\* Largest penalty of an undelegate claim.
MaxPenalty == 4
\* Bytes a malformed encoding may have beyond the proof length.
MaxExtra == 2
\* Threads that call prove and verify concurrently.
MaxThreads == 2
\* Proofs the concurrent callers make.
MaxProofs == 2
\* Tree operations of the Merkle proof test.
MaxMerkleOps == 5

(***************************************************************************)
(* Program constants.                                                      *)
(***************************************************************************)
\* Compressed sizes of BLS12-377 G1 and G2 elements.
G1_COMPRESSED_BYTES == 48
G2_COMPRESSED_BYTES == 96
\* Mutant: the length of three G1 elements.
ProofLengthOfThreeG1 == 3 * G1_COMPRESSED_BYTES
\* Mutant: one byte more than the three elements take.
ProofLengthWithSpareByte == G1_COMPRESSED_BYTES + G2_COMPRESSED_BYTES + G1_COMPRESSED_BYTES + 1
\* The length of our Groth16 proofs in bytes.
GROTH16_PROOF_LENGTH_BYTES == 192
\* Order of the scalar field Fr, scaled down to a small prime.
FrModulus == 3
\* Order of the base field Fq, scaled down to a small prime.
FqModulus == 5
\* The position the nullifier-integrity test derives its wrong nullifier at.
INCORRECT_POSITION == 5

Modes == {"debug", "release"}
Circuits == {"spend", "output", "delegator_vote"}

(***************************************************************************)
(* Field and group arithmetic.                                             *)
(***************************************************************************)
\* fr_strategy: 32 random bytes reduced into Fr.
fr_strategy(raw) == raw % FrModulus
\* fq_strategy: 32 random bytes reduced into Fq.
fq_strategy(raw) == raw % FqModulus

FrAdd(a, b) == (a + b) % FrModulus

\* Value::commit / Balance::commit: amount * G_asset + blinding * H, written
\* as its coefficients over (G_asset, H).  Amounts are 128-bit, far below the
\* group order, so the coefficient of G_asset is the amount itself.
Commit(amount, blinding) == <<amount, blinding % FrModulus>>
\* (-Balance::from(value)).commit(blinding)
CommitNegated(amount, blinding) == <<0 - amount, blinding % FrModulus>>

\* SpendKey::from_seed_phrase: the spend authorization scalar and the
\* nullifier key of a seed.
spend_auth_key(seed) == seed % FrModulus
nullifier_key(seed) == 100 + seed
\* ak = sak * B, written as its coefficient over the basepoint B.
VerificationKeyOf(sak) == sak
\* rsk = sak + randomizer ; rk = rsk * B
Randomize(ak, randomizer) == FrAdd(ak, randomizer)

(***************************************************************************)
(* Notes, addresses, commitments and nullifiers.                           *)
(***************************************************************************)
\* ivk.payment_address(index): diversified generator, transmission key
\* pk_d = ivk(nk, ak) * g_d, clue key.
payment_address(seed, index) ==
    [g_d |-> index,
     pk_d |-> <<nullifier_key(seed), VerificationKeyOf(spend_auth_key(seed)), index>>,
     ck_d |-> index]

\* The transmission key the circuit recomputes from nk, ak and g_d.
DiversifiedPublic(nk, ak, g_d) == <<nk, ak, g_d>>

\* Note::generate(rng, address, value): rseed is the rng's draw.
Note(address, amount, rseed) == [address |-> address, amount |-> amount, rseed |-> rseed]

\* Rseed::derive_note_blinding
note_blinding(rseed) == rseed % FqModulus

\* note::commitment(note_blinding, value, diversified_generator,
\* transmission_key_s, clue_key)
commitment(blinding, amount, g_d, pk_d, ck_d) ==
    <<10, blinding, amount, g_d>> \o pk_d \o <<ck_d>>

\* Note::commit
NoteCommit(n) ==
    commitment(note_blinding(n.rseed), n.amount, n.address.g_d, n.address.pk_d,
               n.address.ck_d)

\* NullifierKey::derive_nullifier(position, commitment)
derive_nullifier(nk, pos, cm) == <<11, nk, pos>> \o cm

(***************************************************************************)
(* The state commitment tree (tct::Tree): three tiers of quadtrees.        *)
(***************************************************************************)
RECURSIVE Pow4(_)
Pow4(n) == IF n = 0 THEN 1 ELSE 4 * Pow4(n - 1)

TierSize == Pow4(TierHeight)
TreeHeight == 3 * TierHeight

\* Position as the u64 (epoch, block, commitment).
PositionOf(epoch, block, idx) == epoch * TierSize * TierSize + block * TierSize + idx

\* Mutant: the position counted within the epoch only.
NextPositionWithinEpoch(t) == PositionOf(0, t.block, t.idx)

\* The position the next insertion gets.
NextPosition(t) == PositionOf(t.epoch, t.block, t.idx)

\* Hash::zero (padding of the frontier), Hash::one (padding of finalized
\* nodes), Hash::of(commitment), Hash::node(height, a, b, c, d).
HashZero == <<0>>
HashOne == <<1>>
HashOf(cm) == <<2>> \o cm
HashNode(ht, a, b, c, d) == <<3, ht>> \o a \o b \o c \o d

EmptyTree == [leaves |-> {}, epoch |-> 0, block |-> 0, idx |-> 0]

LeafAt(t, pos) == CHOOSE l \in t.leaves : l.pos = pos

\* The hash of the subtree of height ht whose first position is lo.
RECURSIVE SubtreeHash(_, _, _)
SubtreeHash(t, ht, lo) ==
    LET hi == lo + Pow4(ht)
        next == NextPosition(t)
        occupied == \E l \in t.leaves : l.pos >= lo /\ l.pos < hi
        child(i) == SubtreeHash(t, ht - 1, lo + i * Pow4(ht - 1))
    IN  IF ~occupied /\ hi <= next THEN HashOne
        ELSE IF ~occupied /\ lo >= next THEN HashZero
        ELSE IF ht = 0 THEN HashOf(LeafAt(t, lo).cm)
        ELSE HashNode(ht, child(0), child(1), child(2), child(3))

\* Tree::root
Root(t) == SubtreeHash(t, TreeHeight, 0)

\* The three siblings, in order, of the child holding pos under its parent
\* at height ht.
Siblings(t, ht, pos) ==
    LET span == Pow4(ht)
        lo == (pos \div span) * span
        way == (pos \div Pow4(ht - 1)) % 4
        idxs == IF way = 0 THEN <<1, 2, 3>>
                ELSE IF way = 1 THEN <<0, 2, 3>>
                ELSE IF way = 2 THEN <<0, 1, 3>>
                ELSE <<0, 1, 2>>
    IN  [k \in 1..3 |-> SubtreeHash(t, ht - 1, lo + idxs[k] * Pow4(ht - 1))]

\* Tree::witness(commitment): the proof of the position the index holds for
\* the commitment (its latest witnessed insertion).
Witnessed(t, cm) == {l \in t.leaves : l.cm = cm /\ l.kept}

Witness(t, cm) ==
    LET l == CHOOSE x \in Witnessed(t, cm) :
                 \A y \in Witnessed(t, cm) : y.pos <= x.pos
    IN  [commitment |-> cm,
         position |-> l.pos,
         auth_path |-> [ht \in 1..TreeHeight |-> Siblings(t, ht, l.pos)]]

\* tct::Proof::dummy(rng, commitment): position 0 and a path of one random
\* field element repeated.
DummyProof(rnd, cm) ==
    [commitment |-> cm,
     position |-> 0,
     auth_path |-> [ht \in 1..TreeHeight |-> [k \in 1..3 |-> <<4, rnd>>]]]

\* Tree::insert(witness, commitment): a kept commitment replaces an earlier
\* witnessed copy of itself in the index.
TreeInsert(t, keep, cm) ==
    LET old == IF keep
               THEN {l \in t.leaves : l.cm = cm /\ l.kept}
               ELSE {}
        rest == (t.leaves \ old) \cup {[l EXCEPT !.kept = FALSE] : l \in old}
    IN  [t EXCEPT !.leaves = rest \cup {[pos |-> NextPosition(t), cm |-> cm, kept |-> keep]},
                  !.idx = t.idx + 1]

CanInsert(t) == t.idx < TierSize /\ t.block < TierSize /\ t.epoch < TierSize

\* Tree::end_block
CanEndBlock(t) == t.block < TierSize /\ t.epoch < TierSize
TreeEndBlock(t) == [t EXCEPT !.block = t.block + 1, !.idx = 0]

\* Tree::end_epoch
CanEndEpoch(t) == t.epoch < TierSize
TreeEndEpoch(t) == [t EXCEPT !.epoch = t.epoch + 1, !.block = 0, !.idx = 0]

(***************************************************************************)
(* The Merkle-membership gadget.                                           *)
(***************************************************************************)
\* to_bits_le of a position: its first n bits, least significant first.
RECURSIVE to_bits_le(_, _)
to_bits_le(x, n) == IF n = 0 THEN <<>> ELSE <<x % 2>> \o to_bits_le(x \div 2, n - 1)

\* WhichWay at height ht from the position's bits: two bits per level.
WhichWay(bits, ht) == bits[2 * ht - 1] + 2 * bits[2 * ht]

\* The running hash placed among the three siblings by which-way.
InsertAt(way, cur, sib) ==
    IF way = 0 THEN <<cur, sib[1], sib[2], sib[3]>>
    ELSE IF way = 1 THEN <<sib[1], cur, sib[2], sib[3]>>
    ELSE IF way = 2 THEN <<sib[1], sib[2], cur, sib[3]>>
    ELSE <<sib[1], sib[2], sib[3], cur>>

RECURSIVE FoldPath(_, _, _, _)
FoldPath(path, bits, ht, cur) ==
    IF ht > TreeHeight THEN cur
    ELSE LET c == InsertAt(WhichWay(bits, ht), cur, path[ht])
         IN  FoldPath(path, bits, ht + 1, HashNode(ht, c[1], c[2], c[3], c[4]))

\* Mutant: the recomputed root is never compared with the anchor.
MerkleVerifyUnconstrained(path, enable, position_bits, anchor_var, cm) ==
    enable => Len(position_bits) = Len(position_bits)

\* MerkleAuthPathVar::verify(cs, enable, position_bits, anchor, commitment):
\* the root recomputed from the leaf along the path equals the anchor,
\* enforced only when enabled.
MerkleVerify(path, enable, position_bits, anchor_var, cm) ==
    enable => FoldPath(path, position_bits, 1, HashOf(cm)) = anchor_var

(***************************************************************************)
(* The circuits: the relations each enforces between witness w and public  *)
(* inputs p.                                                               *)
(***************************************************************************)
\* Mutant: the position's bits, most significant first.
PositionBitsBigEndian(pos) ==
    [i \in 1..(2 * TreeHeight) |-> to_bits_le(pos, 2 * TreeHeight)[2 * TreeHeight + 1 - i]]

\* let position_bits = position_var.inner.to_bits_le()
PositionBits(pos) == to_bits_le(pos, 2 * TreeHeight)

\* MerkleProofCircuit::generate_constraints: the path of the witnessed
\* commitment is verified, with the check enabled, against the anchor.
MerkleProofCircuit(w, p) ==
    MerkleVerify(w.state_commitment_proof.auth_path, TRUE,
                 PositionBits(w.state_commitment_proof.position), p.anchor,
                 w.state_commitment_proof.commitment)

\* Mutant: the spend relations with Merkle membership never enforced.
SpendCircuitNoMembership(w, p) ==
    /\ NoteCommit(w.note) = w.state_commitment_proof.commitment
    /\ derive_nullifier(w.nk, w.state_commitment_proof.position,
                        w.state_commitment_proof.commitment) = p.nullifier
    /\ Commit(w.note.amount, w.v_blinding) = p.balance_commitment
    /\ Randomize(w.ak, w.spend_auth_randomizer) = p.rk
    /\ DiversifiedPublic(w.nk, w.ak, w.note.address.g_d) = w.note.address.pk_d

\* SpendCircuit: note commitment integrity, Merkle membership unless the
\* value is zero, nullifier, balance commitment, randomized key and
\* diversified address integrity.
SpendCircuit(w, p) ==
    LET is_dummy == w.note.amount = 0
    IN  /\ NoteCommit(w.note) = w.state_commitment_proof.commitment
        /\ MerkleVerify(w.state_commitment_proof.auth_path, ~is_dummy,
                        PositionBits(w.state_commitment_proof.position), p.anchor,
                        w.state_commitment_proof.commitment)
        /\ derive_nullifier(w.nk, w.state_commitment_proof.position,
                            w.state_commitment_proof.commitment) = p.nullifier
        /\ Commit(w.note.amount, w.v_blinding) = p.balance_commitment
        /\ Randomize(w.ak, w.spend_auth_randomizer) = p.rk
        /\ DiversifiedPublic(w.nk, w.ak, w.note.address.g_d) = w.note.address.pk_d

\* Mutant: the position may equal start_position.
DelegatorVoteCircuitNonStrict(w, p) ==
    /\ SpendCircuit(w, p)
    /\ w.state_commitment_proof.position <= p.start_position

\* DelegatorVoteCircuit: the spend relations (prove takes no value blinding:
\* the balance commitment is to the note's value under blinding zero) and
\* position < start_position.
DelegatorVoteCircuit(w, p) ==
    /\ SpendCircuit(w, p)
    /\ w.state_commitment_proof.position < p.start_position

\* OutputCircuit: note commitment integrity and balance commitment of the
\* negated value.
OutputCircuit(w, p) ==
    /\ NoteCommit(w.note) = p.note_commitment
    /\ CommitNegated(w.note.amount, w.v_blinding) = p.balance_commitment

\* Penalty::apply_to: the amount kept after a penalty stated in parts of
\* PENALTY_DENOMINATOR, rounded down.
PENALTY_DENOMINATOR == 8
apply_to(penalty, amount) ==
    (amount * (PENALTY_DENOMINATOR - penalty)) \div PENALTY_DENOMINATOR

\* UnbondingToken::new(validator_identity, start_epoch_index).id()
UnbondingTokenId(validator_identity, start_epoch_index) ==
    1000 + 10 * validator_identity + start_epoch_index

\* Penalty::balance_for_claim: the unbonding tokens are consumed and the
\* staking tokens left after the penalty are produced.
balance_for_claim(penalty, unbonding_id, unbonding_amount) ==
    [unbonding_id |-> unbonding_id,
     unbonding |-> 0 - unbonding_amount,
     staking |-> apply_to(penalty, unbonding_amount)]

\* Balance::commit(blinding)
BalanceCommit(balance, blinding) ==
    <<balance.unbonding_id, balance.unbonding, balance.staking, blinding % FrModulus>>

\* UndelegateClaimCircuit: the balance commitment commits to the claim's
\* balance for the public penalty and unbonding id.
UndelegateClaimCircuit(w, p) ==
    p.balance_commitment =
        BalanceCommit(balance_for_claim(p.penalty, p.unbonding_id, w.unbonding_amount),
                      w.balance_blinding)

\* NullifierDerivationCircuit: the nullifier is derived from the nullifier
\* key, the position and the note commitment.
NullifierDerivationCircuit(w, p) ==
    p.nullifier = derive_nullifier(w.nk, p.position, p.note_commitment)

Satisfied(c, w, p) ==
    IF c = "spend" THEN SpendCircuit(w, p)
    ELSE IF c = "delegator_vote" THEN DelegatorVoteCircuit(w, p)
    ELSE IF c = "undelegate_claim" THEN UndelegateClaimCircuit(w, p)
    ELSE IF c = "nullifier_derivation" THEN NullifierDerivationCircuit(w, p)
    ELSE IF c = "merkle_proof" THEN MerkleProofCircuit(w, p)
    ELSE OutputCircuit(w, p)

(***************************************************************************)
(* Proof encoding: a proof is the triple (A, B, C) of group elements, each *)
(* identified by a natural; its encoding is A, B and C compressed, little  *)
(* endian, in 48, 96 and 48 bytes.                                         *)
(***************************************************************************)
\* The n-byte little-endian encoding of x (its high bytes are zero).
RECURSIVE LEBytes(_, _)
LEBytes(x, n) ==
    IF n = 0 THEN <<>>
    ELSE IF x = 0 THEN [i \in 1..n |-> 0]
    ELSE <<x % 256>> \o LEBytes(x \div 256, n - 1)

\* The number a little-endian byte string encodes.
RECURSIVE FromLE(_)
FromLE(bytes) ==
    IF \A i \in 1..Len(bytes) : bytes[i] = 0 THEN 0
    ELSE Head(bytes) + 256 * FromLE(Tail(bytes))

\* Proof::serialize_compressed
serialize_compressed(elems) ==
    LEBytes(elems[1], G1_COMPRESSED_BYTES) \o LEBytes(elems[2], G2_COMPRESSED_BYTES)
        \o LEBytes(elems[3], G1_COMPRESSED_BYTES)

\* Proof::deserialize_compressed: fails unless the input holds the three
\* elements exactly.
deserialize_compressed(bytes) ==
    IF Len(bytes) # GROTH16_PROOF_LENGTH_BYTES
    THEN [ok |-> FALSE, proof |-> <<>>]
    ELSE [ok |-> TRUE,
          proof |-> <<FromLE(SubSeq(bytes, 1, G1_COMPRESSED_BYTES)),
                      FromLE(SubSeq(bytes, G1_COMPRESSED_BYTES + 1,
                                    G1_COMPRESSED_BYTES + G2_COMPRESSED_BYTES)),
                      FromLE(SubSeq(bytes, G1_COMPRESSED_BYTES + G2_COMPRESSED_BYTES + 1,
                                    Len(bytes)))>>]

\* impl From<OutputProof> for pb::ZkOutputProof
ProofToWire(elems) == [inner |-> serialize_compressed(elems)]

\* impl TryFrom<pb::ZkOutputProof> for OutputProof
WireToProof(msg) == deserialize_compressed(msg.inner)

(***************************************************************************)
(* The SNARK backend.                                                      *)
(***************************************************************************)
\* The proof elements Groth16::prove draws with randomness g.
ProofElements(g) == <<257 + g, 65536 + 3 * g, 1 + 2 * g>>

\* Groth16::verify_with_processed_vk: the proof is the one issued for this
\* circuit from a satisfying assignment, and the public inputs are the ones
\* it was issued for.
Groth16Verify(iss, vk, public_inputs, elems) ==
    /\ iss.elems = elems
    /\ iss.circuit = vk
    /\ iss.sat
    /\ iss.public_inputs = public_inputs

(***************************************************************************)
(* State.                                                                  *)
(***************************************************************************)
VARIABLES
    circuit,           \* the circuit under test
    mode,              \* the build: debug (strict) or release (relaxed)
    note,              \* the note spent, created or voted with
    sct,               \* the state commitment tree
    ops,               \* tree operations done before the note's insertion
    state_commitment_proof,
    anchor,            \* sct.root() read right after the note's insertion
    incorrect_anchor,  \* another root
    start_position,
    pc,
    w,                 \* the witness given to prove
    p,                 \* the public inputs given to prove
    proof,             \* the proof elements held by the caller
    issued,            \* the backend's record of the proof it made
    wire,              \* the wire message
    roundtrips,        \* conversions to the wire message and back
    tamper,            \* which public input the last verify replaced
    verify_in,         \* the public inputs given to the last verify
    proof_result,      \* "none", "ok" or "err"
    nverify,
    failures,          \* verifies that returned an error
    keys,              \* the proving/verifying key pair the callers share
    calls,             \* per thread, the prove or verify call it is in
    proofs             \* the proofs concurrent provers have returned

vars == <<circuit, mode, note, sct, ops, state_commitment_proof, anchor,
          incorrect_anchor, start_position, pc, w, p, proof, issued, wire,
          roundtrips, tamper, verify_in, proof_result, nverify, failures,
          keys, calls, proofs>>

\* What no step of a test changes once it is set up.
config == <<circuit, mode, note, keys, calls, proofs>>
tree == <<sct, ops, state_commitment_proof, anchor, incorrect_anchor, start_position>>
proving == <<w, p, issued>>
verifying == <<tamper, verify_in, proof_result, nverify, failures>>

(***************************************************************************)
(* What the tests compute from their inputs.                               *)
(***************************************************************************)
\* sk_sender and the keys derived from it.
sk_sender == [seed |-> 1]
wrong_sk_sender == [seed |-> 2]
nk == nullifier_key(sk_sender.seed)
ak == VerificationKeyOf(spend_auth_key(sk_sender.seed))
sender == payment_address(sk_sender.seed, 0)
\* Mutant: the address of index 1 of the spender's own keys.
SenderSecondAddress == payment_address(sk_sender.seed, 1)
wrong_sender == payment_address(wrong_sk_sender.seed, 1)

note_commitment == NoteCommit(note)

\* Note::generate(&mut rng, &sender, value_to_send).commit() with the rng's
\* k-th draw.
random_note_commitment(k) == NoteCommit(Note(sender, note.amount, k))

\* Mutant: the root read after the note is inserted.
IncorrectAnchorAfterInsert(t) == Root(TreeInsert(t, TRUE, note_commitment))

\* let incorrect_anchor = sct.root(), read before the note is inserted.
IncorrectAnchor(t) == Root(t)

\* Mutant: the commitment made under blinding zero, not v_blinding.
SpendBalanceCommitmentUnblinded(v_blinding) == Commit(note.amount, 0)

\* let balance_commitment = value_to_send.commit(v_blinding)
SpendBalanceCommitment(v_blinding) == Commit(note.amount, v_blinding)

\* let rk = sk_sender.spend_auth_key().randomize(&spend_auth_randomizer).into()
SpendRk(spend_auth_randomizer) ==
    VerificationKeyOf(FrAdd(spend_auth_key(sk_sender.seed), spend_auth_randomizer))

\* Mutant: the nullifier derived at position 0 whatever the witnessed position.
SpendNullifierAtZero(scp) == derive_nullifier(nk, 0, note_commitment)

\* let nf = nk.derive_nullifier(state_commitment_proof.position(), &note_commitment)
SpendNullifier(scp) == derive_nullifier(nk, scp.position, note_commitment)

\* Mutant: the nullifier derived at the witnessed position.
IncorrectNullifierAtWitnessed(position) ==
    derive_nullifier(nk, state_commitment_proof.position, note_commitment)

\* let incorrect_nf = nk.derive_nullifier(5.into(), &note_commitment)
IncorrectNullifier(position) == derive_nullifier(nk, position, note_commitment)

\* Mutant: the commitment made under blinding zero, not the incorrect factor.
IncorrectBalanceCommitmentUnblinded(incorrect_blinding_factor) == Commit(note.amount, 0)

\* let incorrect_balance_commitment = value_to_send.commit(incorrect_blinding_factor)
IncorrectBalanceCommitment(incorrect_blinding_factor) ==
    Commit(note.amount, incorrect_blinding_factor)

\* incorrect_rk from sk_sender.spend_auth_key().randomize(&incorrect_spend_auth_randomizer)
IncorrectRk(incorrect_spend_auth_randomizer) ==
    VerificationKeyOf(FrAdd(spend_auth_key(sk_sender.seed), incorrect_spend_auth_randomizer))

\* let balance_commitment = (-Balance::from(value_to_send)).commit(v_blinding)
OutputBalanceCommitment(v_blinding) == CommitNegated(note.amount, v_blinding)

\* let incorrect_balance_commitment =
\*     (-Balance::from(value_to_send)).commit(incorrect_v_blinding)
OutputIncorrectBalanceCommitment(incorrect_v_blinding) ==
    CommitNegated(note.amount, incorrect_v_blinding)

\* Mutant: the commitment recomputed with the note's own blinding.
IncorrectNoteCommitmentOwnBlinding(blinding) == NoteCommit(note)

\* let incorrect_note_commitment = note::commitment(note_blinding, value_to_send,
\*     note.diversified_generator(), note.transmission_key_s(), note.clue_key())
IncorrectNoteCommitment(blinding) ==
    commitment(blinding, note.amount, note.address.g_d, note.address.pk_d,
               note.address.ck_d)

\* Mutant: the commitment made under a nonzero blinding factor.
DelegatorVoteBalanceCommitmentBlinded == Commit(note.amount, 1)

\* let balance_commitment = value_to_send.commit(Fr::from(0u64))
DelegatorVoteBalanceCommitment == Commit(note.amount, 0)

(***************************************************************************)
(* Initial state: the test's inputs are drawn; the tree is new.            *)
(***************************************************************************)
NoProof == [commitment |-> <<>>, position |-> 0, auth_path |-> <<>>]

\* let (pk, vk) = Circuit::generate_prepared_test_parameters()
KeyPair(c) == [pk |-> [circuit |-> c], vk |-> [circuit |-> c]]

Threads == 1..MaxThreads
NoCalls == [t \in Threads |-> [op |-> "idle", overlapped |-> FALSE]]

Init ==
    /\ circuit \in Circuits
    /\ mode \in Modes
    /\ \E amount \in 0..MaxAmount,
          address \in IF circuit = "spend" THEN {sender, wrong_sender} ELSE {sender} :
           note = Note(address, amount, 0)
    /\ sct = EmptyTree
    /\ ops = 0
    /\ state_commitment_proof = NoProof
    /\ anchor = Root(EmptyTree)
    /\ incorrect_anchor = Root(EmptyTree)
    /\ start_position = 0
    /\ pc = IF circuit = "output" THEN "ready" ELSE "build"
    /\ w = <<>>
    /\ p = <<>>
    /\ proof = <<>>
    /\ issued = <<>>
    /\ wire = <<>>
    /\ roundtrips = 0
    /\ tamper = [kind |-> "none", arg |-> 0]
    /\ verify_in = <<>>
    /\ proof_result = "none"
    /\ nverify = 0
    /\ failures = 0
    /\ keys = KeyPair(circuit)
    /\ calls = NoCalls
    /\ proofs = {}

(***************************************************************************)
(* Building the tree.                                                      *)
(***************************************************************************)
\* sct.insert(witness, random_note_commitment)
InsertUnrelated(keep) ==
    /\ pc = "build"
    /\ ops < MaxTreeOps
    /\ CanInsert(sct)
    /\ sct' = TreeInsert(sct, keep, random_note_commitment(ops + 1))
    /\ ops' = ops + 1
    /\ UNCHANGED <<config, state_commitment_proof, anchor, incorrect_anchor,
                   start_position, pc, proving, proof, wire, roundtrips, verifying>>

\* sct.end_block()
EndBlock ==
    /\ pc = "build"
    /\ ops < MaxTreeOps
    /\ CanEndBlock(sct)
    /\ sct' = TreeEndBlock(sct)
    /\ ops' = ops + 1
    /\ UNCHANGED <<config, state_commitment_proof, anchor, incorrect_anchor,
                   start_position, pc, proving, proof, wire, roundtrips, verifying>>

\* sct.end_epoch()
EndEpoch ==
    /\ pc = "build"
    /\ ops < MaxTreeOps
    /\ CanEndEpoch(sct)
    /\ sct' = TreeEndEpoch(sct)
    /\ ops' = ops + 1
    /\ UNCHANGED <<config, state_commitment_proof, anchor, incorrect_anchor,
                   start_position, pc, proving, proof, wire, roundtrips, verifying>>

\* let incorrect_anchor = sct.root();
\* sct.insert(Keep, note_commitment); let anchor = sct.root();
\* let state_commitment_proof = sct.witness(note_commitment)
InsertNote ==
    /\ pc = "build"
    /\ CanInsert(sct)
    /\ incorrect_anchor' = IncorrectAnchor(sct)
    /\ sct' = TreeInsert(sct, TRUE, note_commitment)
    /\ anchor' = Root(sct')
    /\ state_commitment_proof' = Witness(sct', note_commitment)
    /\ pc' = IF circuit = "delegator_vote" THEN "witnessed" ELSE "ready"
    /\ UNCHANGED <<config, ops, start_position, proving, proof, wire, roundtrips,
                   verifying>>

\* let anchor = sct.root();
\* let state_commitment_proof = tct::Proof::dummy(&mut OsRng, note_commitment):
\* the note is not inserted.  The root of the tree that would hold the note
\* serves as the other anchor.
MakeDummy(rnd) ==
    /\ pc = "build"
    /\ circuit = "spend"
    /\ CanInsert(sct)
    /\ anchor' = Root(sct)
    /\ incorrect_anchor' = Root(TreeInsert(sct, TRUE, note_commitment))
    /\ state_commitment_proof' = DummyProof(rnd, note_commitment)
    /\ pc' = "ready"
    /\ UNCHANGED <<config, sct, ops, start_position, proving, proof, wire, roundtrips,
                   verifying>>

\* sct.end_epoch() after the note was witnessed (delegator vote).
CloseEpoch ==
    /\ pc = "witnessed"
    /\ CanEndEpoch(sct)
    /\ sct' = TreeEndEpoch(sct)
    /\ pc' = "epoch_closed"
    /\ UNCHANGED <<config, ops, state_commitment_proof, anchor, incorrect_anchor,
                   start_position, proving, proof, wire, roundtrips, verifying>>

\* sct.insert(Keep, first_note_commitment);
\* let start_position = sct.witness(first_note_commitment).position()
InsertFirst ==
    /\ pc = "epoch_closed"
    /\ CanInsert(sct)
    /\ sct' = TreeInsert(sct, TRUE, random_note_commitment(MaxTreeOps + 1))
    /\ start_position' = Witness(sct', random_note_commitment(MaxTreeOps + 1)).position
    /\ pc' = "ready"
    /\ UNCHANGED <<config, ops, state_commitment_proof, anchor, incorrect_anchor,
                   proving, proof, wire, roundtrips, verifying>>

\* A caller that passes a start_position of its own choosing: the note's
\* position, the one before or the one after.
ChooseStartPosition(sp) ==
    /\ pc = "witnessed"
    /\ sp >= 0
    /\ start_position' = sp
    /\ pc' = "ready"
    /\ UNCHANGED <<config, sct, ops, state_commitment_proof, anchor, incorrect_anchor,
                   proving, proof, wire, roundtrips, verifying>>

(***************************************************************************)
(* Proving.                                                                *)
(***************************************************************************)
\* Groth16::prove on the circuit's assignment: the debug build aborts on an
\* unsatisfied constraint system, the release build returns a proof.
Prove(g, wit, pub) ==
    /\ pc = "ready"
    /\ w' = wit
    /\ p' = pub
    /\ IF ~Satisfied(circuit, wit, pub) /\ mode = "debug"
       THEN /\ pc' = "panicked"
            /\ UNCHANGED <<proof, issued>>
       ELSE /\ pc' = "proved"
            /\ proof' = ProofElements(g)
            /\ issued' = [elems |-> ProofElements(g), circuit |-> circuit,
                          public_inputs |-> pub, sat |-> Satisfied(circuit, wit, pub)]
    /\ UNCHANGED <<config, tree, wire, roundtrips, verifying>>

\* SpendProof::prove(rng, pk, state_commitment_proof, note, v_blinding,
\*     spend_auth_randomizer, ak, nk, anchor, balance_commitment, nf, rk)
SpendProve(g, v_blinding, spend_auth_randomizer, root) ==
    /\ circuit = "spend"
    /\ Prove(g,
             [state_commitment_proof |-> state_commitment_proof, note |-> note,
              v_blinding |-> v_blinding,
              spend_auth_randomizer |-> spend_auth_randomizer, ak |-> ak, nk |-> nk],
             [anchor |-> root,
              balance_commitment |-> SpendBalanceCommitment(v_blinding),
              nullifier |-> SpendNullifier(state_commitment_proof),
              rk |-> SpendRk(spend_auth_randomizer)])

\* Mutant: prove takes the blinding factor of the balance commitment as the
\* circuit's v_blinding witness.
DelegatorVoteProveBlinded(g, spend_auth_randomizer, balance_commitment) ==
    /\ circuit = "delegator_vote"
    /\ Prove(g,
             [state_commitment_proof |-> state_commitment_proof, note |-> note,
              v_blinding |-> balance_commitment[2],
              spend_auth_randomizer |-> spend_auth_randomizer, ak |-> ak, nk |-> nk],
             [anchor |-> anchor,
              balance_commitment |-> balance_commitment,
              nullifier |-> SpendNullifier(state_commitment_proof),
              rk |-> SpendRk(spend_auth_randomizer),
              start_position |-> start_position])

\* DelegatorVoteProof::prove(rng, pk, state_commitment_proof, note,
\*     spend_auth_randomizer, ak, nk, anchor, balance_commitment, nf, rk,
\*     start_position)
\* prove is given no value blinding: the circuit's v_blinding witness is
\* zero whatever balance commitment the caller passes.
DelegatorVoteProve(g, spend_auth_randomizer, balance_commitment) ==
    /\ circuit = "delegator_vote"
    /\ Prove(g,
             [state_commitment_proof |-> state_commitment_proof, note |-> note,
              v_blinding |-> 0,
              spend_auth_randomizer |-> spend_auth_randomizer, ak |-> ak, nk |-> nk],
             [anchor |-> anchor,
              balance_commitment |-> balance_commitment,
              nullifier |-> SpendNullifier(state_commitment_proof),
              rk |-> SpendRk(spend_auth_randomizer),
              start_position |-> start_position])

\* OutputProof::prove(rng, pk, note, v_blinding, balance_commitment,
\*     note_commitment)
OutputProve(g, v_blinding) ==
    /\ circuit = "output"
    /\ Prove(g,
             [note |-> note, v_blinding |-> v_blinding],
             [balance_commitment |-> OutputBalanceCommitment(v_blinding),
              note_commitment |-> note_commitment])

(***************************************************************************)
(* The wire message.                                                       *)
(***************************************************************************)
\* let serialized_proof: pb::ZkOutputProof = proof.into()
Serialize ==
    /\ circuit = "output"
    /\ pc = "proved"
    /\ nverify = 0
    /\ roundtrips = 0
    /\ wire' = ProofToWire(proof)
    /\ proof' = <<>>
    /\ pc' = "serialized"
    /\ UNCHANGED <<config, tree, proving, roundtrips, verifying>>

\* OutputProof::try_from(serialized_proof).expect("can deserialize proof")
Deserialize ==
    /\ pc = "serialized"
    /\ IF WireToProof(wire).ok
       THEN /\ proof' = WireToProof(wire).proof
            /\ pc' = "proved"
       ELSE /\ proof' = <<>>
            /\ pc' = "panicked"
    /\ wire' = <<>>
    /\ roundtrips' = roundtrips + 1
    /\ UNCHANGED <<config, tree, proving, verifying>>

(***************************************************************************)
(* Verifying.                                                              *)
(***************************************************************************)
\* The public inputs a verifier may pass: the ones proved with, or those
\* with one of them replaced the way the integrity tests replace it.  Each
\* choice is <<replaced input, the value it is rebuilt from, public inputs>>.
Untampered == <<"none", 0, p>>

BalanceCommitmentChoices ==
    {<<"balance_commitment", fr_strategy(raw),
       [p EXCEPT !.balance_commitment =
           IF circuit = "output"
           THEN OutputIncorrectBalanceCommitment(fr_strategy(raw))
           ELSE IncorrectBalanceCommitment(fr_strategy(raw))]>> :
     raw \in 0..MaxRaw}

NoteCommitmentChoices ==
    {<<"note_commitment", fq_strategy(raw),
       [p EXCEPT !.note_commitment = IncorrectNoteCommitment(fq_strategy(raw))]>> :
     raw \in 0..MaxRaw}

AnchorChoices == {<<"anchor", 0, [p EXCEPT !.anchor = incorrect_anchor]>>}

NullifierChoices ==
    {<<"nullifier", pos, [p EXCEPT !.nullifier = IncorrectNullifier(pos)]>> :
     pos \in {0, 1, INCORRECT_POSITION}}

RkChoices ==
    {<<"rk", fr_strategy(raw), [p EXCEPT !.rk = IncorrectRk(fr_strategy(raw))]>> :
     raw \in 0..MaxRaw}

StartPositionChoices ==
    {<<"start_position", sp, [p EXCEPT !.start_position = sp]>> :
     sp \in {p.start_position + 1, state_commitment_proof.position}}

VerifyChoices ==
    IF circuit = "output"
    THEN {Untampered} \cup BalanceCommitmentChoices \cup NoteCommitmentChoices
    ELSE {Untampered} \cup BalanceCommitmentChoices \cup AnchorChoices
             \cup NullifierChoices \cup RkChoices
             \cup (IF circuit = "delegator_vote" THEN StartPositionChoices ELSE {})

\* Mutant: a failed verification aborts and drops the proof.
VerifyWithAbort(choice) ==
    /\ tamper' = [kind |-> choice[1], arg |-> choice[2]]
    /\ verify_in' = choice[3]
    /\ proof_result' = IF Groth16Verify(issued, circuit, choice[3], proof)
                       THEN "ok" ELSE "none"
    /\ nverify' = nverify + 1
    /\ failures' = failures
    /\ pc' = IF proof_result' = "ok" THEN "verified" ELSE "panicked"
    /\ UNCHANGED <<config, tree, proving, proof, wire, roundtrips>>

\* proof.verify(&vk, public inputs)
VerifyWith(choice) ==
    /\ tamper' = [kind |-> choice[1], arg |-> choice[2]]
    /\ verify_in' = choice[3]
    /\ proof_result' = IF Groth16Verify(issued, circuit, choice[3], proof)
                       THEN "ok" ELSE "err"
    /\ nverify' = nverify + 1
    /\ failures' = IF proof_result' = "err" THEN failures + 1 ELSE failures
    /\ pc' = "verified"
    /\ UNCHANGED <<config, tree, proving, proof, wire, roundtrips>>

Verify ==
    /\ pc \in {"proved", "verified"}
    /\ nverify < MaxVerifies
    /\ \E choice \in VerifyChoices : VerifyWith(choice)

Next ==
    \/ \E keep \in BOOLEAN : InsertUnrelated(keep)
    \/ EndBlock
    \/ EndEpoch
    \/ InsertNote
    \/ \E rnd \in 0..MaxRng : MakeDummy(rnd)
    \/ CloseEpoch
    \/ InsertFirst
    \/ \E d \in {-1, 0, 1} : ChooseStartPosition(state_commitment_proof.position + d)
    \/ \E g \in 0..MaxRng, rb \in 0..MaxRaw, rr \in 0..MaxRaw,
          root \in {anchor, incorrect_anchor} :
           SpendProve(g, fr_strategy(rb), fr_strategy(rr), root)
    \/ \E g \in 0..MaxRng, rr \in 0..MaxRaw,
          bc \in {DelegatorVoteBalanceCommitment}
                     \cup {SpendBalanceCommitment(fr_strategy(rb)) : rb \in 0..MaxRaw} :
           DelegatorVoteProve(g, fr_strategy(rr), bc)
    \/ \E g \in 0..MaxRng, rb \in 0..MaxRaw : OutputProve(g, fr_strategy(rb))
    \/ Serialize
    \/ Deserialize
    \/ Verify

Spec == Init /\ [][Next]_vars

(***************************************************************************)
(* The undelegate-claim and nullifier-derivation proofs.                   *)
(***************************************************************************)
ClaimCircuits == {"undelegate_claim", "nullifier_derivation"}

\* let start_epoch_index = 1
START_EPOCH_INDEX == 1

\* let validator_identity = IdentityKey((&sk).into())
validator_identity(validator_randomness) == VerificationKeyOf(validator_randomness)

\* let unbonding_id = UnbondingToken::new(validator_identity, start_epoch_index).id()
unbonding_id(validator_randomness) ==
    UnbondingTokenId(validator_identity(validator_randomness), START_EPOCH_INDEX)

\* Mutant: the balance of a claim without its penalty.
UndelegateBalanceNoPenalty(penalty_amount, id, unbonding_amount) ==
    balance_for_claim(0, id, unbonding_amount)

\* let balance = penalty.balance_for_claim(unbonding_id, unbonding_amount)
UndelegateBalance(penalty_amount, id, unbonding_amount) ==
    balance_for_claim(penalty_amount, id, unbonding_amount)

\* Mutant: the nullifier derived at the position after the witnessed one.
NullifierDerivationNullifierAtNext(scp) ==
    derive_nullifier(nk, scp.position + 1, note_commitment)

\* let nullifier = nk.derive_nullifier(state_commitment_proof.position(),
\*                                     &note_commitment)
NullifierDerivationNullifier(scp) ==
    derive_nullifier(nk, scp.position, note_commitment)

InitClaims ==
    /\ circuit \in ClaimCircuits
    /\ mode \in Modes
    /\ \E amount \in 0..MaxAmount : note = Note(sender, amount, 0)
    /\ sct = EmptyTree
    /\ ops = 0
    /\ state_commitment_proof = NoProof
    /\ anchor = Root(EmptyTree)
    /\ incorrect_anchor = Root(EmptyTree)
    /\ start_position = 0
    /\ pc = IF circuit = "undelegate_claim" THEN "ready" ELSE "build"
    /\ w = <<>>
    /\ p = <<>>
    /\ proof = <<>>
    /\ issued = <<>>
    /\ wire = <<>>
    /\ roundtrips = 0
    /\ tamper = [kind |-> "none", arg |-> 0]
    /\ verify_in = <<>>
    /\ proof_result = "none"
    /\ nverify = 0
    /\ failures = 0
    /\ keys = KeyPair(circuit)
    /\ calls = NoCalls
    /\ proofs = {}

\* UndelegateClaimProof::prove(rng, pk, unbonding_amount, balance_blinding,
\*     balance_commitment, unbonding_id, penalty)
UndelegateClaimProve(g, validator_randomness, balance_blinding, value1_amount, penalty_amount) ==
    /\ circuit = "undelegate_claim"
    /\ Prove(g,
             [unbonding_amount |-> value1_amount, balance_blinding |-> balance_blinding],
             [balance_commitment |->
                  BalanceCommit(UndelegateBalance(penalty_amount,
                                                  unbonding_id(validator_randomness),
                                                  value1_amount),
                                balance_blinding),
              unbonding_id |-> unbonding_id(validator_randomness),
              penalty |-> penalty_amount])

\* proof.verify(&vk, balance_commitment, unbonding_id, penalty)
UndelegateClaimVerify(balance_commitment, id, penalty) ==
    /\ circuit = "undelegate_claim"
    /\ pc \in {"proved", "verified"}
    /\ nverify < MaxVerifies
    /\ VerifyWith(<<"call", [balance_commitment |-> balance_commitment,
                             unbonding_id |-> id, penalty |-> penalty],
                    [balance_commitment |-> balance_commitment,
                     unbonding_id |-> id, penalty |-> penalty]>>)

\* NullifierDerivationProof::prove(rng, pk, position, note, nk, nullifier):
\* the note commitment it proves for is recomputed from the note.
NullifierDerivationProve(g, position, note_, nk_, nullifier) ==
    /\ circuit = "nullifier_derivation"
    /\ Prove(g,
             [nk |-> nk_],
             [position |-> position, note_commitment |-> NoteCommit(note_),
              nullifier |-> nullifier])

\* Mutant: verify is given the note commitment and the nullifier only, and
\* takes the position from the prover.
NullifierDerivationVerifyNoPosition(position, note_, nullifier) ==
    /\ circuit = "nullifier_derivation"
    /\ pc \in {"proved", "verified"}
    /\ nverify < MaxVerifies
    /\ VerifyWith(<<"call", [note_commitment |-> NoteCommit(note_),
                             nullifier |-> nullifier],
                    [position |-> p.position, note_commitment |-> NoteCommit(note_),
                     nullifier |-> nullifier]>>)

\* proof.verify(&vk, position, note, nullifier): the note commitment is
\* recomputed from the note.
NullifierDerivationVerify(position, note_, nullifier) ==
    /\ circuit = "nullifier_derivation"
    /\ pc \in {"proved", "verified"}
    /\ nverify < MaxVerifies
    /\ VerifyWith(<<"call", [position |-> position, note |-> note_,
                             nullifier |-> nullifier],
                    [position |-> position, note_commitment |-> NoteCommit(note_),
                     nullifier |-> nullifier]>>)

\* The positions a caller may name: the witnessed one and others.
PositionChoices == {state_commitment_proof.position, 0, 1, INCORRECT_POSITION}

\* The notes a caller may name: the note and one with another seed.
NoteChoices == {note, Note(sender, note.amount, 1)}

NextClaims ==
    \/ \E keep \in BOOLEAN : InsertUnrelated(keep)
    \/ EndBlock
    \/ EndEpoch
    \/ InsertNote
    \/ \E g \in 0..MaxRng, vr \in 0..MaxRaw, rb \in 0..MaxRaw,
          value1_amount \in 1..MaxUnbonding, penalty_amount \in 0..MaxPenalty :
           UndelegateClaimProve(g, fr_strategy(vr), fr_strategy(rb), value1_amount,
                                penalty_amount)
    \/ \E rb \in 0..MaxRaw, penalty \in 0..MaxPenalty, id \in {0, 1} :
           UndelegateClaimVerify(
               BalanceCommit(balance_for_claim(p.penalty, p.unbonding_id,
                                               w.unbonding_amount), fr_strategy(rb)),
               p.unbonding_id + id, penalty)
    \/ \E g \in 0..MaxRng, pos \in PositionChoices :
           NullifierDerivationProve(g, state_commitment_proof.position, note, nk,
               IF pos = state_commitment_proof.position
               THEN NullifierDerivationNullifier(state_commitment_proof)
               ELSE IncorrectNullifier(pos))
    \/ \E pos \in PositionChoices, n \in NoteChoices, nfpos \in PositionChoices :
           NullifierDerivationVerify(pos, n,
               IF nfpos = state_commitment_proof.position
               THEN p.nullifier ELSE IncorrectNullifier(nfpos))

SpecClaims == InitClaims /\ [][NextClaims]_vars

(***************************************************************************)
(* Encodings of any length.                                                *)
(***************************************************************************)
AllCircuits == Circuits \cup ClaimCircuits

\* A byte string cut or zero-padded to len bytes.
Resize(bytes, len) ==
    IF len <= Len(bytes) THEN SubSeq(bytes, 1, len)
    ELSE bytes \o [i \in 1..(len - Len(bytes)) |-> 0]

\* A caller holds a proof of some circuit.
InitEncoding ==
    /\ circuit \in AllCircuits
    /\ mode \in Modes
    /\ note = Note(sender, 0, 0)
    /\ sct = EmptyTree
    /\ ops = 0
    /\ state_commitment_proof = NoProof
    /\ anchor = Root(EmptyTree)
    /\ incorrect_anchor = Root(EmptyTree)
    /\ start_position = 0
    /\ pc = "proved"
    /\ w = <<>>
    /\ p = <<>>
    /\ \E g \in 0..MaxRng :
           /\ proof = ProofElements(g)
           /\ issued = [elems |-> ProofElements(g), circuit |-> circuit,
                        public_inputs |-> <<>>, sat |-> TRUE]
    /\ wire = <<>>
    /\ roundtrips = 0
    /\ tamper = [kind |-> "none", arg |-> 0]
    /\ verify_in = <<>>
    /\ proof_result = "none"
    /\ nverify = 0
    /\ failures = 0
    /\ keys = KeyPair(circuit)
    /\ calls = NoCalls
    /\ proofs = {}

\* impl From<Proof> for the wire message, for the proof of any circuit.
Encode ==
    /\ pc = "proved"
    /\ roundtrips = 0
    /\ wire' = ProofToWire(proof)
    /\ proof' = <<>>
    /\ pc' = "serialized"
    /\ UNCHANGED <<config, tree, proving, roundtrips, verifying>>

\* The payload reaches the decoder with another length.
Malform(len) ==
    /\ pc = "serialized"
    /\ tamper.kind = "none"
    /\ len # Len(wire.inner)
    /\ wire' = [inner |-> Resize(wire.inner, len)]
    /\ tamper' = [kind |-> "length", arg |-> len]
    /\ UNCHANGED <<config, tree, proving, proof, pc, roundtrips, verify_in,
                   proof_result, nverify, failures>>

\* impl TryFrom<wire message> for the proof: Ok(proof) or Err.  The bytes
\* stay with the caller, who may decode them again.
TryFromWire ==
    /\ pc \in {"serialized", "decoded", "rejected"}
    /\ roundtrips < MaxVerifies
    /\ IF WireToProof(wire).ok
       THEN /\ proof' = WireToProof(wire).proof
            /\ pc' = "decoded"
       ELSE /\ proof' = <<>>
            /\ pc' = "rejected"
    /\ roundtrips' = roundtrips + 1
    /\ UNCHANGED <<config, tree, proving, wire, verifying>>

NextEncoding ==
    \/ Encode
    \/ \E len \in 0..(GROTH16_PROOF_LENGTH_BYTES + MaxExtra) : Malform(len)
    \/ TryFromWire

SpecEncoding == InitEncoding /\ [][NextEncoding]_vars

(***************************************************************************)
(* Concurrent callers sharing one key pair.  A call reads its key when it  *)
(* starts and returns in a later step; other threads' steps fall between.  *)
(***************************************************************************)
InFlight(t) == calls[t].op \in {"proving", "verifying"}

\* Thread t enters call c: c and the calls in flight now overlap.
Enter(t, c) ==
    [u \in Threads |->
        IF u = t THEN c @@ [overlapped |-> \E v \in Threads \ {t} : InFlight(v)]
        ELSE IF InFlight(u) THEN [calls[u] EXCEPT !.overlapped = TRUE]
        ELSE calls[u]]

InitConcurrent ==
    /\ circuit = "output"
    /\ mode \in Modes
    /\ \E amount \in 0..MaxAmount : note = Note(sender, amount, 0)
    /\ sct = EmptyTree
    /\ ops = 0
    /\ state_commitment_proof = NoProof
    /\ anchor = Root(EmptyTree)
    /\ incorrect_anchor = Root(EmptyTree)
    /\ start_position = 0
    /\ pc = "ready"
    /\ w = <<>>
    /\ p = <<>>
    /\ proof = <<>>
    /\ issued = <<>>
    /\ wire = <<>>
    /\ roundtrips = 0
    /\ tamper = [kind |-> "none", arg |-> 0]
    /\ verify_in = <<>>
    /\ proof_result = "none"
    /\ nverify = 0
    /\ failures = 0
    /\ keys = KeyPair(circuit)
    /\ calls = NoCalls
    /\ proofs = {}

\* OutputProof::prove(&mut rng, &pk, ..) is entered: it borrows pk.
StartProve(t, g, v_blinding) ==
    /\ ~InFlight(t)
    /\ Cardinality(proofs) < MaxProofs
    /\ calls' = Enter(t, [op |-> "proving", key |-> keys.pk, g |-> g,
                          w |-> [note |-> note, v_blinding |-> v_blinding],
                          p |-> [balance_commitment |-> OutputBalanceCommitment(v_blinding),
                                 note_commitment |-> note_commitment]])
    /\ UNCHANGED <<circuit, mode, note, keys, proofs, tree, pc, proving, proof, wire,
                   roundtrips, verifying>>

\* OutputProof::prove returns its proof.
FinishProve(t) ==
    /\ calls[t].op = "proving"
    /\ LET c == calls[t]
           sat == Satisfied(c.key.circuit, c.w, c.p)
       IN  IF ~sat /\ mode = "debug"
           THEN /\ calls' = [calls EXCEPT ![t] = [op |-> "panicked",
                                                  overlapped |-> c.overlapped]]
                /\ proofs' = proofs
           ELSE /\ calls' = [calls EXCEPT ![t] = [op |-> "proved",
                                                  overlapped |-> c.overlapped]]
                /\ proofs' = proofs \cup {[elems |-> ProofElements(c.g),
                                           circuit |-> c.key.circuit,
                                           public_inputs |-> c.p, sat |-> sat]}
    /\ UNCHANGED <<circuit, mode, note, keys, tree, pc, proving, proof, wire,
                   roundtrips, verifying>>

\* proof.verify(&vk, ..) is entered on a proof some prover returned, with
\* the inputs proved for or another balance commitment: it borrows vk.
StartVerify(t, pr, replaced) ==
    /\ ~InFlight(t)
    /\ pr \in proofs
    /\ calls' = Enter(t, [op |-> "verifying", key |-> keys.vk, proof |-> pr,
                          inputs |-> IF replaced
                                     THEN [pr.public_inputs EXCEPT !.balance_commitment =
                                              OutputIncorrectBalanceCommitment(
                                                  pr.public_inputs.balance_commitment[2] + 1)]
                                     ELSE pr.public_inputs])
    /\ UNCHANGED <<circuit, mode, note, keys, proofs, tree, pc, proving, proof, wire,
                   roundtrips, verifying>>

\* Mutant: verify keeps its last result in the shared verifying key and
\* returns it to the next caller.
FinishVerifyMemo(t) ==
    /\ calls[t].op = "verifying"
    /\ LET c == calls[t]
           result == IF "last" \in DOMAIN keys.vk THEN keys.vk.last
                     ELSE IF Groth16Verify(c.proof, c.key.circuit, c.inputs, c.proof.elems)
                          THEN "ok" ELSE "err"
       IN  /\ calls' = [calls EXCEPT ![t] = [c EXCEPT !.op = "verified"]
                                             @@ [result |-> result]]
           /\ keys' = [keys EXCEPT !.vk = [circuit |-> c.key.circuit, last |-> result]]
    /\ UNCHANGED <<circuit, mode, note, proofs, tree, pc, proving, proof, wire,
                   roundtrips, verifying>>

\* proof.verify returns.
FinishVerify(t) ==
    /\ calls[t].op = "verifying"
    /\ LET c == calls[t]
           result == IF Groth16Verify(c.proof, c.key.circuit, c.inputs, c.proof.elems)
                     THEN "ok" ELSE "err"
       IN  calls' = [calls EXCEPT ![t] = [c EXCEPT !.op = "verified"]
                                         @@ [result |-> result]]
    /\ UNCHANGED <<circuit, mode, note, keys, proofs, tree, pc, proving, proof, wire,
                   roundtrips, verifying>>

NextConcurrent ==
    \/ \E t \in Threads, g \in 0..MaxRng, rb \in 0..MaxRaw :
           StartProve(t, g, fr_strategy(rb))
    \/ \E t \in Threads : FinishProve(t)
    \/ \E t \in Threads, pr \in proofs, replaced \in BOOLEAN : StartVerify(t, pr, replaced)
    \/ \E t \in Threads : FinishVerify(t)

SpecConcurrent == InitConcurrent /\ [][NextConcurrent]_vars

(***************************************************************************)
(* The Merkle proof test: commitments are added to the tree step by step   *)
(* and the proof of each kept one is proved and verified.                  *)
(***************************************************************************)
\* fn make_random_note_commitment(address): the note of value 1 with the
\* fixed Rseed([1u8; 32]).
make_random_note_commitment(address) == NoteCommit(Note(address, 1, 1))

InitMerkle ==
    /\ circuit = "merkle_proof"
    /\ mode \in Modes
    /\ note = Note(sender, 1, 1)
    /\ sct = EmptyTree
    /\ ops = 0
    /\ state_commitment_proof = NoProof
    /\ anchor = Root(EmptyTree)
    /\ incorrect_anchor = Root(EmptyTree)
    /\ start_position = 0
    /\ pc = "build"
    /\ w = <<>>
    /\ p = <<>>
    /\ proof = <<>>
    /\ issued = <<>>
    /\ wire = <<>>
    /\ roundtrips = 0
    /\ tamper = [kind |-> "none", arg |-> 0]
    /\ verify_in = <<>>
    /\ proof_result = "none"
    /\ nverify = 0
    /\ failures = 0
    /\ keys = KeyPair(circuit)
    /\ calls = NoCalls
    /\ proofs = {}

\* sct.insert(Witness::Keep, note_commitment); let anchor = sct.root();
\* let state_commitment_proof = sct.witness(note_commitment)
MerkleInsertKeep ==
    /\ pc \in {"build", "verified"}
    /\ ops < MaxMerkleOps
    /\ CanInsert(sct)
    /\ sct' = TreeInsert(sct, TRUE, make_random_note_commitment(sender))
    /\ anchor' = Root(sct')
    /\ state_commitment_proof' = Witness(sct', make_random_note_commitment(sender))
    /\ ops' = ops + 1
    /\ pc' = "ready"
    /\ UNCHANGED <<config, incorrect_anchor, start_position, proving, proof, wire,
                   roundtrips, verifying>>

\* sct.insert(Witness::Forget, note_commitment)
MerkleInsertForget ==
    /\ pc \in {"build", "verified"}
    /\ ops < MaxMerkleOps
    /\ CanInsert(sct)
    /\ sct' = TreeInsert(sct, FALSE, make_random_note_commitment(sender))
    /\ ops' = ops + 1
    /\ pc' = "build"
    /\ UNCHANGED <<config, state_commitment_proof, anchor, incorrect_anchor,
                   start_position, proving, proof, wire, roundtrips, verifying>>

\* sct.end_block()
MerkleEndBlock ==
    /\ pc \in {"build", "verified"}
    /\ ops < MaxMerkleOps
    /\ CanEndBlock(sct)
    /\ sct' = TreeEndBlock(sct)
    /\ ops' = ops + 1
    /\ pc' = "build"
    /\ UNCHANGED <<config, state_commitment_proof, anchor, incorrect_anchor,
                   start_position, proving, proof, wire, roundtrips, verifying>>

\* sct.end_epoch()
MerkleEndEpoch ==
    /\ pc \in {"build", "verified"}
    /\ ops < MaxMerkleOps
    /\ CanEndEpoch(sct)
    /\ sct' = TreeEndEpoch(sct)
    /\ ops' = ops + 1
    /\ pc' = "build"
    /\ UNCHANGED <<config, state_commitment_proof, anchor, incorrect_anchor,
                   start_position, proving, proof, wire, roundtrips, verifying>>

\* Groth16::prove(&pk, MerkleProofCircuit { state_commitment_proof, anchor }, rng)
MerkleProve(g) ==
    /\ circuit = "merkle_proof"
    /\ Prove(g, [state_commitment_proof |-> state_commitment_proof], [anchor |-> anchor])

\* Groth16::verify_with_processed_vk(&vk, &[Fq::from(anchor)], &proof)
MerkleProofVerify ==
    /\ circuit = "merkle_proof"
    /\ pc = "proved"
    /\ verify_in' = [anchor |-> anchor]
    /\ proof_result' = IF Groth16Verify(issued, circuit, [anchor |-> anchor], proof)
                       THEN "ok" ELSE "err"
    /\ pc' = "verified"
    /\ UNCHANGED <<config, tree, proving, proof, wire, roundtrips, tamper, nverify,
                   failures>>

NextMerkle ==
    \/ MerkleInsertKeep
    \/ MerkleInsertForget
    \/ MerkleEndBlock
    \/ MerkleEndEpoch
    \/ \E g \in 0..MaxRng : MerkleProve(g)
    \/ MerkleProofVerify

SpecMerkle == InitMerkle /\ [][NextMerkle]_vars

(***************************************************************************)
(* Properties.                                                             *)
(***************************************************************************)
\* prove has returned or aborted.
AfterProve == pc \in {"proved", "panicked", "serialized", "verified"}

\* The inclusion proof given to prove is the tree's witness of the note.
NoteInserted ==
    \E l \in sct.leaves :
        /\ l.cm = note_commitment
        /\ l.kept
        /\ l.pos = w.state_commitment_proof.position
        /\ w.state_commitment_proof.auth_path # DummyProof(0, note_commitment).auth_path
        /\ \A rnd \in 0..MaxRng :
               w.state_commitment_proof # DummyProof(rnd, note_commitment)

\* Commitments were inserted before the note.
UnrelatedBefore == \E l \in sct.leaves : l.pos < w.state_commitment_proof.position

\* The root the inclusion proof reconstructs.
ReconstructedRoot ==
    FoldPath(w.state_commitment_proof.auth_path,
             PositionBits(w.state_commitment_proof.position), 1,
             HashOf(w.state_commitment_proof.commitment))

\* verify was given the public inputs the proof was made with.
VerifiedUnmodified == pc = "verified" /\ verify_in = p

\* C1: a spend of a nonzero note of the spender's, inserted after at least
\* one unrelated commitment and proved against the root read right after its
\* insertion, with the balance commitment, nullifier and rk the spender
\* derives, proves, and its proof verifies with the same public inputs.
C1_Case ==
    /\ circuit = "spend"
    /\ AfterProve
    /\ note.amount # 0
    /\ note.address = sender
    /\ NoteInserted
    /\ UnrelatedBefore
    /\ p.anchor = anchor

C1_SpendProveVerify ==
    C1_Case =>
        /\ anchor = Root(sct)
        /\ p.balance_commitment = Commit(note.amount, w.v_blinding)
        /\ p.nullifier = derive_nullifier(nk, w.state_commitment_proof.position,
                                          note_commitment)
        /\ p.rk = Randomize(ak, w.spend_auth_randomizer)
        /\ pc # "panicked"
        /\ issued.sat
        /\ (VerifiedUnmodified => proof_result = "ok")

C1_Witness == C1_Case /\ VerifiedUnmodified /\ proof_result = "ok"

SpendInputs == {"anchor", "balance_commitment", "nullifier", "rk"}

\* The public inputs of a spend that verify was given changed.
Replaced == {f \in SpendInputs : verify_in[f] # p[f]}

\* C2: a spend proof of a nonzero note made against the root read after the
\* note's insertion fails verification against another anchor (the root
\* read before the insertion), the other public inputs being the proved ones.
C2_Case ==
    /\ circuit = "spend"
    /\ pc = "verified"
    /\ note.amount # 0
    /\ NoteInserted
    /\ p.anchor = anchor

C2_OtherAnchorRejected ==
    /\ (C2_Case /\ tamper.kind = "anchor") =>
           /\ Replaced = {"anchor"}
           /\ proof_result = "err"
    /\ (C2_Case /\ verify_in.anchor # p.anchor) => proof_result = "err"

C2_Witness ==
    /\ C2_Case
    /\ tamper.kind = "anchor"
    /\ issued.sat
    /\ Replaced = {"anchor"}
    /\ proof_result = "err"

\* C3: a spend proof made with the nullifier derived at the witnessed
\* position fails verification against the nullifier derived at any other
\* position, the other public inputs being the proved ones.
C3_Case ==
    /\ circuit = "spend"
    /\ pc = "verified"
    /\ tamper.kind = "nullifier"
    /\ tamper.arg # w.state_commitment_proof.position

C3_WrongPositionNullifierRejected ==
    C3_Case =>
        /\ p.nullifier = derive_nullifier(nk, w.state_commitment_proof.position,
                                          note_commitment)
        /\ verify_in = [p EXCEPT !.nullifier =
                                     derive_nullifier(nk, tamper.arg, note_commitment)]
        /\ Replaced = {"nullifier"}
        /\ proof_result = "err"

C3_Witness ==
    /\ C3_Case
    /\ issued.sat
    /\ w.state_commitment_proof.position = 0
    /\ tamper.arg = INCORRECT_POSITION
    /\ proof_result = "err"

\* C4: a valid spend proof fails verification when exactly one public input
\* is replaced; so with a balance commitment to the same value under another
\* blinding factor, and with the rk of another randomizer.
C4_Case == circuit = "spend" /\ pc = "verified" /\ issued.sat

C4_OneInputReplacedRejected ==
    /\ (C4_Case /\ Cardinality(Replaced) = 1) => proof_result = "err"
    /\ (C4_Case /\ tamper.kind = "balance_commitment" /\ tamper.arg # w.v_blinding) =>
           /\ verify_in.balance_commitment = Commit(note.amount, tamper.arg)
           /\ Replaced = {"balance_commitment"}
           /\ proof_result = "err"
    /\ (C4_Case /\ tamper.kind = "rk" /\ tamper.arg # w.spend_auth_randomizer) =>
           /\ verify_in.rk = Randomize(ak, tamper.arg)
           /\ Replaced = {"rk"}
           /\ proof_result = "err"

C4_Witness ==
    /\ C4_Case
    /\ tamper.kind = "rk"
    /\ tamper.arg # w.spend_auth_randomizer
    /\ Replaced = {"rk"}
    /\ proof_result = "err"

\* C5: a spend of a zero-value note of the spender's proves and verifies
\* with the same public inputs whatever the inclusion proof (the tree's or a
\* dummy), the anchor and the blinding factor.
C5_Case ==
    /\ circuit = "spend"
    /\ AfterProve
    /\ note.amount = 0
    /\ note.address = sender

C5_DummySpendVerifies ==
    C5_Case =>
        /\ pc # "panicked"
        /\ issued.sat
        /\ (VerifiedUnmodified => proof_result = "ok")

C5_Witness ==
    /\ C5_Case
    /\ sct = EmptyTree
    /\ w.state_commitment_proof \in {DummyProof(rnd, note_commitment) : rnd \in 0..MaxRng}
    /\ p.anchor = Root(EmptyTree)
    /\ ReconstructedRoot # p.anchor
    /\ w.v_blinding # 0
    /\ VerifiedUnmodified
    /\ proof_result = "ok"

\* C6: a spend of a nonzero note whose inclusion proof does not reconstruct
\* the anchor never both proves and verifies.
C6_Case ==
    /\ circuit = "spend"
    /\ AfterProve
    /\ note.amount # 0
    /\ ReconstructedRoot # p.anchor

C6_NoBypassForNonzero ==
    C6_Case =>
        /\ pc = "panicked" \/ ~issued.sat
        /\ pc = "verified" => proof_result = "err"

C6_Witness ==
    /\ C6_Case
    /\ note.address = sender
    /\ w.state_commitment_proof \in {DummyProof(rnd, note_commitment) : rnd \in 0..MaxRng}
    /\ VerifiedUnmodified
    /\ proof_result = "err"

\* C7: a proof converted to its wire message and back is the proof it was,
\* and verifies as the original does; an output proof made for a note and
\* the balance commitment of its negated value verifies after the round trip.
C7_Case == roundtrips > 0

C7_WireRoundTrip ==
    /\ pc = "serialized" =>
           /\ Len(wire.inner) = GROTH16_PROOF_LENGTH_BYTES
           /\ WireToProof(wire).ok
           /\ WireToProof(wire).proof = issued.elems
    /\ C7_Case =>
           /\ pc # "panicked"
           /\ proof = issued.elems
           /\ pc = "verified" =>
                  proof_result = IF Groth16Verify(issued, circuit, verify_in, issued.elems)
                                 THEN "ok" ELSE "err"
    /\ (C7_Case /\ circuit = "output" /\ VerifiedUnmodified) =>
           /\ p.balance_commitment = CommitNegated(note.amount, w.v_blinding)
           /\ p.note_commitment = NoteCommit(note)
           /\ proof_result = "ok"

C7_Witness ==
    /\ C7_Case
    /\ circuit = "output"
    /\ note.amount # 0
    /\ VerifiedUnmodified
    /\ proof_result = "ok"

OutputInputs == {"balance_commitment", "note_commitment"}

\* The public inputs of an output that verify was given changed.
OutputReplaced == {f \in OutputInputs : verify_in[f] # p[f]}

\* C8: a valid output proof fails verification against a note commitment
\* recomputed with another note blinding, and against a balance commitment
\* to the same negated value under another blinding factor.
C8_Case == circuit = "output" /\ pc = "verified" /\ issued.sat

C8_OutputInputReplacedRejected ==
    /\ (C8_Case /\ OutputReplaced # {}) => proof_result = "err"
    /\ (C8_Case /\ tamper.kind = "note_commitment"
            /\ tamper.arg # note_blinding(note.rseed)) =>
           /\ verify_in.note_commitment =
                  commitment(tamper.arg, note.amount, note.address.g_d,
                             note.address.pk_d, note.address.ck_d)
           /\ OutputReplaced = {"note_commitment"}
           /\ proof_result = "err"
    /\ (C8_Case /\ tamper.kind = "balance_commitment" /\ tamper.arg # w.v_blinding) =>
           /\ verify_in.balance_commitment = CommitNegated(note.amount, tamper.arg)
           /\ OutputReplaced = {"balance_commitment"}
           /\ proof_result = "err"

C8_Witness ==
    /\ C8_Case
    /\ tamper.kind = "note_commitment"
    /\ OutputReplaced = {"note_commitment"}
    /\ proof_result = "err"

\* start_position is the position of the first commitment inserted after
\* the epoch of the note was closed.
FirstAfterEpochClosed ==
    \E l \in sct.leaves :
        /\ l.cm = random_note_commitment(MaxTreeOps + 1)
        /\ l.pos = p.start_position
        /\ l.pos = PositionOf(sct.epoch, 0, 0)

\* C9: a delegator vote with a nonzero note, against the root read right
\* after the note's insertion and with start_position the position of the
\* first commitment inserted after the epoch was closed, proves and verifies
\* with the same public inputs, though the tree's root has changed since.
C9_Case ==
    /\ circuit = "delegator_vote"
    /\ AfterProve
    /\ note.amount # 0
    /\ NoteInserted
    /\ FirstAfterEpochClosed
    /\ p.balance_commitment = DelegatorVoteBalanceCommitment

C9_DelegatorVoteProveVerify ==
    C9_Case =>
        /\ p.anchor = anchor
        /\ ReconstructedRoot = anchor
        /\ Root(sct) # anchor
        /\ w.state_commitment_proof.position < p.start_position
        /\ p.balance_commitment = Commit(note.amount, 0)
        /\ pc # "panicked"
        /\ issued.sat
        /\ (VerifiedUnmodified => proof_result = "ok")

C9_Witness ==
    /\ C9_Case
    /\ ~UnrelatedBefore
    /\ VerifiedUnmodified
    /\ proof_result = "ok"

\* C10: a delegator vote whose note's position is not below start_position
\* never both proves and verifies, and no proof verifies against a
\* start_position that is not above the note's position.
C10_Case ==
    /\ circuit = "delegator_vote"
    /\ AfterProve
    /\ w.state_commitment_proof.position >= p.start_position

C10_LateNoteRejected ==
    /\ C10_Case =>
           /\ pc = "panicked" \/ ~issued.sat
           /\ pc = "verified" => proof_result = "err"
    /\ (circuit = "delegator_vote" /\ pc = "verified"
            /\ w.state_commitment_proof.position >= verify_in.start_position) =>
           proof_result = "err"

C10_Witness ==
    /\ C10_Case
    /\ note.amount # 0
    /\ w.state_commitment_proof.position = p.start_position
    /\ VerifiedUnmodified
    /\ proof_result = "err"

\* The delegator vote is for a nonzero note of the voter's own, inserted in
\* the tree before start_position and proved against the root read after
\* its insertion.
C11_Case ==
    /\ circuit = "delegator_vote"
    /\ AfterProve
    /\ note.amount # 0
    /\ NoteInserted
    /\ w.state_commitment_proof.position < p.start_position

\* C11 as stated: a delegator-vote proof is made and verifies against
\* commit(note value, b) for any blinding factor b.
C11_AnyBlinding ==
    C11_Case =>
        /\ pc # "panicked"
        /\ issued.sat
        /\ (VerifiedUnmodified => proof_result = "ok")

\* C11, amended: the delegator-vote circuit has the witnesses of the spend
\* circuit, but prove takes no value-blinding factor and fixes that witness
\* to zero, so a delegator-vote proof is made and verifies against
\* commit(note value, 0) only; for another blinding factor prove aborts or
\* returns a proof that fails verify.
C11_ZeroBlindingOnly ==
    C11_Case =>
        /\ DOMAIN w = {"state_commitment_proof", "note", "v_blinding",
                       "spend_auth_randomizer", "ak", "nk"}
        /\ DOMAIN p = SpendInputs \cup {"start_position"}
        /\ w.v_blinding = 0
        /\ p.balance_commitment = Commit(note.amount, 0) =>
               /\ pc # "panicked"
               /\ issued.sat
               /\ (VerifiedUnmodified => proof_result = "ok")
        /\ p.balance_commitment # Commit(note.amount, 0) =>
               /\ pc = "panicked" \/ ~issued.sat
               /\ (pc = "verified" => proof_result = "err")

C11_Witness ==
    /\ C11_Case
    /\ p.balance_commitment = Commit(note.amount, 1)
    /\ VerifiedUnmodified
    /\ proof_result = "err"

\* C12: for every unbonding amount, penalty (zero and larger than the
\* amount included), unbonding id and blinding factor, an undelegate claim
\* whose balance commitment commits to penalty.balance_for_claim(unbonding
\* id, unbonding amount) proves, and verifies with the same public inputs.
C12_Case == circuit = "undelegate_claim" /\ AfterProve

C12_UndelegateClaimProveVerify ==
    C12_Case =>
        /\ p.balance_commitment =
               BalanceCommit(balance_for_claim(p.penalty, p.unbonding_id,
                                               w.unbonding_amount), w.balance_blinding)
        /\ pc # "panicked"
        /\ issued.sat
        /\ (VerifiedUnmodified => proof_result = "ok")

C12_Witness ==
    /\ C12_Case
    /\ p.penalty > w.unbonding_amount
    /\ apply_to(p.penalty, w.unbonding_amount) # w.unbonding_amount
    /\ VerifiedUnmodified
    /\ proof_result = "ok"

\* The note is in the tree at the position proved for.
NoteAtPosition ==
    \E l \in sct.leaves : l.cm = note_commitment /\ l.kept /\ l.pos = p.position

\* C13: for a note inserted into the tree, a nullifier-derivation proof for
\* nullifier = derive(nk, witnessed position, note commitment) is made and
\* verifies with the same public values; a nullifier that is not that
\* derivation neither proves and verifies, nor is accepted by verify.
C13_Case == circuit = "nullifier_derivation" /\ AfterProve /\ NoteAtPosition

C13_NullifierDerivationProveVerify ==
    /\ (C13_Case /\ p.nullifier = NullifierDerivationNullifier(state_commitment_proof)) =>
           /\ p.position = state_commitment_proof.position
           /\ p.note_commitment = note_commitment
           /\ p.nullifier = derive_nullifier(nk, p.position, note_commitment)
           /\ pc # "panicked"
           /\ issued.sat
           /\ (VerifiedUnmodified => proof_result = "ok")
    /\ (C13_Case /\ p.nullifier # derive_nullifier(nk, p.position, note_commitment)) =>
           /\ pc = "panicked" \/ ~issued.sat
           /\ (pc = "verified" => proof_result = "err")
    /\ (C13_Case /\ pc = "verified"
            /\ verify_in.nullifier #
                   derive_nullifier(nk, verify_in.position, verify_in.note_commitment)) =>
           proof_result = "err"

C13_Witness ==
    /\ C13_Case
    /\ p.position > 0
    /\ p.nullifier = derive_nullifier(nk, p.position, note_commitment)
    /\ VerifiedUnmodified
    /\ proof_result = "ok"

C14_Case == circuit = "nullifier_derivation" /\ pc = "verified"

\* C14 as stated: verify is given the note commitment and the nullifier
\* only, and its outcome depends on no other value (not on the position).
C14_OnlyCommitmentAndNullifier ==
    C14_Case =>
        /\ DOMAIN tamper.arg = {"note_commitment", "nullifier"}
        /\ (issued.sat /\ verify_in.note_commitment = p.note_commitment
                /\ verify_in.nullifier = p.nullifier) => proof_result = "ok"

\* C14, amended: only the nullifier key is private to the prover.  verify is
\* given the position, the note and the nullifier, recomputes the note
\* commitment from the note, and its outcome depends on the proof, the
\* position, that commitment and the nullifier: another position is rejected.
C14_VerifierGivenPositionAndNote ==
    C14_Case =>
        /\ DOMAIN w = {"nk"}
        /\ DOMAIN tamper.arg = {"position", "note", "nullifier"}
        /\ verify_in = [position |-> tamper.arg.position,
                        note_commitment |-> NoteCommit(tamper.arg.note),
                        nullifier |-> tamper.arg.nullifier]
        /\ proof_result = "ok" <=> Groth16Verify(issued, circuit, verify_in, proof)
        /\ verify_in.position # p.position => proof_result = "err"

C14_Witness ==
    /\ C14_Case
    /\ issued.sat
    /\ verify_in.position # p.position
    /\ verify_in.note_commitment = p.note_commitment
    /\ verify_in.nullifier = p.nullifier
    /\ proof_result = "err"

\* What decoding has left: the proof, or nothing.
C15_Case == pc \in {"decoded", "rejected"}

C15_Decoded ==
    /\ (pc = "serialized" /\ tamper.kind = "none") =>
           Len(wire.inner) = GROTH16_PROOF_LENGTH_BYTES
    /\ C15_Case =>
           /\ pc = "rejected" <=> Len(wire.inner) # G1_COMPRESSED_BYTES
                                       + G2_COMPRESSED_BYTES + G1_COMPRESSED_BYTES
           /\ pc = "rejected" <=> tamper.kind = "length"
           /\ pc = "rejected" => proof = <<>>
           /\ pc = "decoded" => proof = issued.elems

\* A decoding step leaves the bytes and everything but the decoded proof as
\* they were, and decoding the same bytes again ends as it did before.
C15_DecodeStep ==
    (pc' \in {"decoded", "rejected"} /\ roundtrips' # roundtrips) =>
        /\ wire' = wire
        /\ UNCHANGED <<config, tree, proving, verifying>>
        /\ pc \in {"decoded", "rejected"} => (pc' = pc /\ proof' = proof)

\* C15: the proof of any circuit encodes to exactly 192 bytes; decoding a
\* payload of any other length fails, the same way each time, leaves no
\* partially decoded proof and changes no state.
C15_FixedLengthEncoding == []C15_Decoded /\ [][C15_DecodeStep]_vars

C15_Witness ==
    /\ pc = "rejected"
    /\ circuit = "nullifier_derivation"
    /\ Len(wire.inner) = GROTH16_PROOF_LENGTH_BYTES + 1
    /\ roundtrips = 2
    /\ proof = <<>>

\* C16: a spend of a note addressed to a diversified address that is not
\* of the spender's keys never both proves and verifies: the debug build
\* aborts in prove, the release build returns a proof that verify rejects.
C16_Case ==
    /\ circuit = "spend"
    /\ AfterProve
    /\ note.address = wrong_sender
    /\ w.note = note
    /\ w.ak = ak
    /\ w.nk = nk

C16_WrongAddressRejected ==
    C16_Case =>
        /\ DiversifiedPublic(nk, ak, note.address.g_d) # note.address.pk_d
        /\ mode = "debug" => (pc = "panicked" /\ proof = <<>> /\ issued = <<>>)
        /\ mode = "release" =>
               /\ pc # "panicked"
               /\ ~issued.sat
               /\ (pc = "verified" => proof_result = "err")

C16_Witness ==
    /\ C16_Case
    /\ mode = "release"
    /\ note.amount # 0
    /\ NoteInserted
    /\ ReconstructedRoot = p.anchor
    /\ VerifiedUnmodified
    /\ proof_result = "err"

C17_Case == nverify > 0

\* Whatever verify was given, it has returned ok or an error, the proof and
\* the verifying key's circuit are as they were, and a verify with the
\* public inputs proved for returns ok also after failed ones.
C17_Verified ==
    C17_Case =>
        /\ pc = "verified"
        /\ proof_result \in {"ok", "err"}
        /\ proof_result = "err" <=> ~Groth16Verify(issued, circuit, verify_in, proof)
        /\ proof = issued.elems
        /\ issued.circuit = circuit
        /\ (issued.sat /\ verify_in = p) => proof_result = "ok"

\* A verify step changes nothing but its own result.
C17_VerifyStep ==
    nverify' # nverify =>
        /\ proof' = proof
        /\ circuit' = circuit
        /\ UNCHANGED <<config, tree, proving, wire, roundtrips>>

\* C17: a verification failure is an error result of verify, never a crash:
\* verify ends with ok or an error for every proof and public inputs, leaves
\* the proof and the verifying key unchanged, and a later verify of the same
\* proof with the correct public inputs still returns ok.
C17_FailureIsAnError == []C17_Verified /\ [][C17_VerifyStep]_vars

C17_Witness ==
    /\ nverify = 2
    /\ failures = 1
    /\ circuit = "spend"
    /\ tamper.kind = "none"
    /\ VerifiedUnmodified
    /\ proof_result = "ok"

\* What verify returns when run alone on a proof and public inputs.
AloneResult(pr, inputs) ==
    IF Groth16Verify(pr, circuit, inputs, pr.elems) THEN "ok" ELSE "err"

C18_Case(t) == calls[t].op = "verified"

\* C18: prove and verify keep no state between calls and never modify the
\* key pair: under every interleaving of concurrent prove and verify calls
\* sharing one key pair, each verify returns what it returns when run alone
\* on the same proof and public inputs.
C18_StatelessCalls ==
    /\ keys = KeyPair(circuit)
    /\ \A t \in Threads :
           C18_Case(t) =>
               /\ calls[t].result = AloneResult(calls[t].proof, calls[t].inputs)
               /\ calls[t].inputs = calls[t].proof.public_inputs => calls[t].result = "ok"
               /\ calls[t].inputs # calls[t].proof.public_inputs => calls[t].result = "err"

C18_Witness ==
    /\ C18_Case(1)
    /\ C18_Case(2)
    /\ calls[1].overlapped
    /\ calls[2].overlapped
    /\ calls[1].proof = calls[2].proof
    /\ calls[1].result = "ok"
    /\ calls[2].result = "err"

\* A commitment was just inserted with its witness kept; the tree has not
\* changed since.
C19_Case == circuit = "merkle_proof" /\ pc \in {"ready", "proved", "panicked", "verified"}

\* C19: after any sequence of kept and forgotten insertions, end_block and
\* end_epoch, the inclusion proof of a commitment just inserted with its
\* witness kept satisfies the enabled Merkle gadget against the root read
\* right after the insertion: folding the leaf along the path at the
\* position's bits gives that root, and the proof made of it verifies.
C19_MerkleGadgetHolds ==
    C19_Case =>
        /\ state_commitment_proof.commitment = make_random_note_commitment(sender)
        /\ state_commitment_proof.position + 1 = NextPosition(sct)
        /\ anchor = Root(sct)
        /\ FoldPath(state_commitment_proof.auth_path,
                    PositionBits(state_commitment_proof.position), 1,
                    HashOf(state_commitment_proof.commitment)) = anchor
        /\ MerkleProofCircuit([state_commitment_proof |-> state_commitment_proof],
                              [anchor |-> anchor])
        /\ pc # "panicked"
        /\ pc \in {"proved", "verified"} => issued.sat
        /\ pc = "verified" => proof_result = "ok"

C19_Witness ==
    /\ C19_Case
    /\ pc = "verified"
    /\ proof_result = "ok"
    /\ sct.epoch = 1
    /\ sct.block = 1
    /\ sct.idx = 2
    /\ \E l \in sct.leaves : l.pos = state_commitment_proof.position - 1 /\ ~l.kept

\* The positions of the commitments in the tree.
Positions(t) == {l.pos : l \in t.leaves}

\* The first commitment inserted after the epoch of the note was closed.
C20_Case ==
    /\ circuit = "delegator_vote"
    /\ \E l \in sct.leaves : l.cm = random_note_commitment(MaxTreeOps + 1)

\* No two commitments share a position, and once the first commitment after
\* end_epoch is in the tree, start_position is its position and every other
\* commitment, the witnessed note included, is at a smaller one.
C20_Ordered ==
    /\ Cardinality(Positions(sct)) = Cardinality(sct.leaves)
    /\ C20_Case =>
           /\ \A l \in sct.leaves :
                  IF l.cm = random_note_commitment(MaxTreeOps + 1)
                  THEN l.pos = start_position
                  ELSE l.pos < start_position
           /\ state_commitment_proof.position \in Positions(sct)
           /\ state_commitment_proof.position < start_position

\* A step that changes the commitments of the tree adds exactly one, at a
\* position greater than every position taken before, and at 0 when the
\* tree was new.
C20_InsertStep ==
    sct'.leaves # sct.leaves =>
        /\ Positions(sct) \subseteq Positions(sct')
        /\ \E pos \in Positions(sct') \ Positions(sct) :
               /\ Positions(sct') = Positions(sct) \cup {pos}
               /\ \A q \in Positions(sct) : q < pos
               /\ sct = EmptyTree => pos = 0

\* C20: positions strictly increase in insertion order, also across
\* end_epoch: the first commitment of a new tree is at position 0, and the
\* first commitment inserted after end_epoch is at a position greater than
\* that of every commitment inserted before, however many there were.
C20_PositionsIncrease == []C20_Ordered /\ [][C20_InsertStep]_vars

C20_Witness ==
    /\ C20_Case
    /\ Cardinality(sct.leaves) >= 3
    /\ state_commitment_proof.position > 0
    /\ start_position = PositionOf(sct.epoch, 0, 0)
    /\ start_position > state_commitment_proof.position
    /\ proof_result = "ok"

====
